---- MODULE Spec2Model ----
(***************************************************************************)
(* Model of CourseService (src/app/utils/course_service.py) and of the     *)
(* lookup tables of src/settings.py.                                       *)
(*                                                                         *)
(* Python values are modelled as follows.                                  *)
(*   - A set of the filter bag is a sequence without repetitions: the      *)
(*     members in the order in which iterating the set yields them.        *)
(*   - A str that the code parses (a grade) is the sequence of its         *)
(*     characters; subject and difficulty strings are never parsed and are *)
(*     plain strings.  Cyrillic literals are transliterated and the        *)
(*     character U+00B2 is written "SUPERSCRIPT_TWO".                      *)
(*   - The outcome of a call is a record: a returned value or a raised     *)
(*     exception.                                                          *)
(***************************************************************************)
EXTENDS Integers, Sequences, FiniteSets, TLC

VARIABLES
    BASE_URL,        \* config.BASE_URL as seen by CourseService.__init__
    client_ok,       \* whether CourseAPIClient(...) constructs without raising
    mock_available,  \* whether data.mock_courses can be imported
    api_client,      \* self.api_client: "None" or "CourseAPIClient"
    filters,         \* the caller's filter bag
    op,              \* the public operation invoked last ("none" before any)
    course_id,       \* argument of the last get_course_by_id
    requests,        \* the remote calls issued by the last invocation, in order
    api_params,      \* outcome of the translation in the last filter_courses
    courses,         \* the candidate list fetched by the last invocation
    result           \* outcome of the last invocation

vars == <<BASE_URL, client_ok, mock_available, api_client, filters, op,
          course_id, requests, api_params, courses, result>>

---------------------------------------------------------------------------
(* Bounds of the model *)

\* largest number of members selected in a filter bag, all sets together
MaxSel == 3

---------------------------------------------------------------------------
(* Outcomes *)

Ok(v) == [tag |-> "ok", val |-> v, exc |-> "none"]
Raise(e) == [tag |-> "raise", val |-> <<>>, exc |-> e]
Unset == [tag |-> "unset", val |-> <<>>, exc |-> "none"]

Range(s) == {s[i] : i \in DOMAIN s}

---------------------------------------------------------------------------
(* src/settings.py *)

SUBJECT_TO_CATEGORY ==
    ( "Iskusstvennyy intellekt" :> 1 @@ "Programmirovanie" :> 2
   @@ "Informatsionnaya bezopasnost" :> 3 @@ "Robototekhnika" :> 4
   @@ "Predprinimatelstvo" :> 5 @@ "Finansovaya gramotnost" :> 6
   @@ "Nauka" :> 7 )

DIFFICULTY_TO_LEVEL ==
    ( "Nachalnyy" :> "BEGINNER" @@ "Sredniy" :> "INTERMEDIATE"
   @@ "Prodvinutyy" :> "ADVANCED" )

GRADE_TO_ID == ( 7 :> 1 @@ 8 :> 2 @@ 9 :> 3 @@ 10 :> 4 @@ 11 :> 5 )

\* APIConfig.validate: raises ValueError when BASE_URL is empty
validate(base_url) == IF base_url = "" THEN Raise("ValueError") ELSE Ok(TRUE)

---------------------------------------------------------------------------
(* Python built-ins used on grades *)

PyInt(n) == [t |-> "int", n |-> n, s |-> <<>>]
PyStr(s) == [t |-> "str", n |-> 0, s |-> s]

DecimalValue ==
    ( "0" :> 0 @@ "1" :> 1 @@ "2" :> 2 @@ "3" :> 3 @@ "4" :> 4
   @@ "5" :> 5 @@ "6" :> 6 @@ "7" :> 7 @@ "8" :> 8 @@ "9" :> 9 )

\* characters for which str.isdigit is true: the decimal digits and the
\* other characters of Numeric_Type=Digit, of which U+00B2 is one
DigitChars == DOMAIN DecimalValue \cup {"SUPERSCRIPT_TWO"}

\* str.isdigit(): non-empty and every character is a digit
isdigit(s) == s # <<>> /\ \A i \in DOMAIN s : s[i] \in DigitChars

RECURSIVE DecimalFold(_, _)
DecimalFold(s, acc) ==
    IF s = <<>> THEN acc
    ELSE DecimalFold(Tail(s), 10 * acc + DecimalValue[Head(s)])

\* int(s) for a str s: the base-10 value, ValueError when some character is
\* not a decimal digit
int(s) ==
    IF s # <<>> /\ \A i \in DOMAIN s : s[i] \in DOMAIN DecimalValue
    THEN Ok(DecimalFold(s, 0))
    ELSE Raise("ValueError")

\* dict.get(key) where a missing key and an empty set are both falsy
Get(bag, key) == IF key \in DOMAIN bag THEN bag[key] ELSE <<>>

---------------------------------------------------------------------------
(* CourseService._convert_filters_to_api_params *)

RECURSIVE FirstInTable(_, _)
\* the loops over subjects and over difficulty: the table image of the first
\* member found in the table, none when no member is in it
FirstInTable(members, table) ==
    IF members = <<>> THEN <<>>
    ELSE IF Head(members) \in DOMAIN table THEN <<table[Head(members)]>>
    ELSE FirstInTable(Tail(members), table)

RECURSIVE FirstGrade(_)
\* the loop over grades: a str of digits is replaced by int(grade) before the
\* lookup, which raises when int() does
FirstGrade(grades) ==
    IF grades = <<>> THEN Ok(<<>>)
    ELSE LET grade == Head(grades) IN
         IF grade.t = "str" /\ isdigit(grade.s)
         THEN LET n == int(grade.s) IN
              IF n.tag = "raise" THEN n
              ELSE IF n.val \in DOMAIN GRADE_TO_ID
                   THEN Ok(<<GRADE_TO_ID[n.val]>>)
                   ELSE FirstGrade(Tail(grades))
         ELSE IF grade.t = "int" /\ grade.n \in DOMAIN GRADE_TO_ID
              THEN Ok(<<GRADE_TO_ID[grade.n]>>)
              ELSE FirstGrade(Tail(grades))

\* api_params[key] = value when a value was found, no entry otherwise
Param(key, found) == IF found = <<>> THEN <<>> ELSE key :> found[1]

convert_filters_to_api_params(bag) ==
    LET category == FirstInTable(Get(bag, "subjects"), SUBJECT_TO_CATEGORY)
        level == FirstInTable(Get(bag, "difficulty"), DIFFICULTY_TO_LEVEL)
        grade_id == FirstGrade(Get(bag, "grade"))
    IN  IF grade_id.tag = "raise" THEN grade_id
        ELSE Ok(Param("category_id", category) @@ Param("level", level)
                @@ Param("grade_id", grade_id.val))

---------------------------------------------------------------------------
(* CourseService._filter_courses_locally *)

\* {v: k for k, v in DIFFICULTY_TO_LEVEL.items()}.get(code, code)
bot_difficulty(course_difficulty) ==
    IF \E k \in DOMAIN DIFFICULTY_TO_LEVEL :
           DIFFICULTY_TO_LEVEL[k] = course_difficulty
    THEN CHOOSE k \in DOMAIN DIFFICULTY_TO_LEVEL :
           DIFFICULTY_TO_LEVEL[k] = course_difficulty
    ELSE course_difficulty

subjects_match(course, bag) ==
    Get(bag, "subjects") = <<>>
    \/ \E subject \in Range(Get(bag, "subjects")) :
           subject \in Range(course.subjects)

difficulty_match(course, bag) ==
    Get(bag, "difficulty") = <<>>
    \/ bot_difficulty(course.difficulty) \in Range(Get(bag, "difficulty"))

RECURSIVE user_grades(_, _)
\* the set user_grades built from filters["grade"]: int(grade) for a str of
\* digits, the grade itself for an int, nothing for anything else
user_grades(grades, acc) ==
    IF grades = <<>> THEN Ok(acc)
    ELSE LET grade == Head(grades) IN
         IF grade.t = "str" /\ isdigit(grade.s)
         THEN LET n == int(grade.s) IN
              IF n.tag = "raise" THEN n
              ELSE user_grades(Tail(grades), acc \cup {n.val})
         ELSE IF grade.t = "int"
              THEN user_grades(Tail(grades), acc \cup {grade.n})
              ELSE user_grades(Tail(grades), acc)

\* grade_match of one course: TRUE/FALSE, or the exception of user_grades
grade_match(course, bag) ==
    IF Get(bag, "grade") = <<>> THEN Ok(TRUE)
    ELSE LET ug == user_grades(Get(bag, "grade"), {}) IN
         IF ug.tag = "raise" THEN ug
         ELSE Ok(\E grade \in ug.val : grade \in Range(course.grade))

RECURSIVE FilterLoop(_, _, _)
\* for course in courses: ... results.append(course)
FilterLoop(cs, bag, results) ==
    IF cs = <<>> THEN Ok(results)
    ELSE LET course == Head(cs)
             gm == grade_match(course, bag)
         IN  IF gm.tag = "raise" THEN gm
             ELSE FilterLoop(Tail(cs), bag,
                    IF subjects_match(course, bag)
                       /\ difficulty_match(course, bag) /\ gm.val
                    THEN Append(results, course) ELSE results)

filter_courses_locally(cs, bag) ==
    IF cs = <<>> THEN Ok(<<>>) ELSE FilterLoop(cs, bag, <<>>)

---------------------------------------------------------------------------
(* Course records *)

Course(id, subjects, difficulty, grade) ==
    [id |-> id, subjects |-> subjects, difficulty |-> difficulty,
     grade |-> grade]

\* data.mock_courses.COURSES, the fallback dataset
COURSES ==
    << Course(101, <<"Programmirovanie">>, "BEGINNER", <<9>>),
       Course(102, <<"Nauka">>, "INTERMEDIATE", <<8, 10>>),
       Course(103, <<"Programmirovanie", "Nauka">>, "EXPERT", <<9, 11>>) >>

\* the catalog held by the remote API; two of its records share an id
CATALOG ==
    << Course(1, <<"Programmirovanie">>, "INTERMEDIATE", <<9, 10>>),
       Course(2, <<"Nauka">>, "INTERMEDIATE", <<10>>),
       Course(2, <<"Programmirovanie", "Nauka">>, "EXPERT", <<9>>),
       Course(3, <<"Kulinariya">>, "ADVANCED", <<7>>) >>

---------------------------------------------------------------------------
(* api.client.CourseAPIClient, seen from its caller *)

\* what the remote side does with one request
RemoteBehaviours == {"exact", "superset", "bare_list", "APIError", "Exception"}

\* the behaviours that get_all_courses, which takes no parameters and returns
\* no envelope, can tell apart
AllCoursesBehaviours == {"exact", "APIError", "Exception"}

\* a catalog record matches the parameters of a constrained request
MatchesParams(course, params) ==
    /\ "category_id" \in DOMAIN params =>
          \E s \in Range(course.subjects) :
              s \in DOMAIN SUBJECT_TO_CATEGORY
              /\ SUBJECT_TO_CATEGORY[s] = params["category_id"]
    /\ "level" \in DOMAIN params => course.difficulty = params["level"]
    /\ "grade_id" \in DOMAIN params =>
          \E g \in Range(course.grade) :
              g \in DOMAIN GRADE_TO_ID /\ GRADE_TO_ID[g] = params["grade_id"]

ExactAnswer(params) == SelectSeq(CATALOG, LAMBDA c : MatchesParams(c, params))

\* get_courses(**api_params): APIError, another exception, or a payload that
\* is an envelope {'courses': [...]} or a bare list
get_courses(behaviour, params) ==
    CASE behaviour = "APIError" -> Raise("APIError")
      [] behaviour = "Exception" -> Raise("Exception")
      [] behaviour = "bare_list" ->
             Ok([envelope |-> FALSE, courses |-> ExactAnswer(params)])
      [] behaviour = "superset" ->
             Ok([envelope |-> TRUE, courses |-> CATALOG])
      [] OTHER -> Ok([envelope |-> TRUE, courses |-> ExactAnswer(params)])

\* get_all_courses(): APIError, another exception, or the list of all courses
get_all_courses(behaviour) ==
    CASE behaviour = "APIError" -> Raise("APIError")
      [] behaviour = "Exception" -> Raise("Exception")
      [] OTHER -> Ok(CATALOG)

---------------------------------------------------------------------------
(* CourseService *)

\* mutant: an exception of the client's constructor is not caught
CourseServiceInit_ctor_uncaught(base_url, ctor_ok) ==
    IF validate(base_url).tag = "raise" THEN "None" ELSE "CourseAPIClient"

\* __init__: api_client stays None when validate() or the client's
\* constructor raises
CourseServiceInit(base_url, ctor_ok) ==
    IF validate(base_url).tag = "raise" THEN "None"
    ELSE IF ~ctor_ok THEN "None"
    ELSE "CourseAPIClient"

is_api_available(client) == client # "None"

\* mutant: the fallback dataset is returned without the local filter
get_fallback_courses_unfiltered(bag, importable) ==
    IF importable THEN Ok(COURSES) ELSE Ok(<<>>)

\* _get_fallback_courses: only ImportError is caught
get_fallback_courses(bag, importable) ==
    IF importable THEN filter_courses_locally(COURSES, bag) ELSE Ok(<<>>)

\* result['courses']
Unwrap(payload) ==
    IF payload.tag = "raise" THEN payload
    ELSE IF payload.val.envelope THEN Ok(payload.val.courses)
    ELSE Raise("TypeError")

\* mutant: an error yields an empty list instead of the fallback courses
OnError_empty(bag, importable) == Ok(<<>>)

\* the except clauses of filter_courses: APIError and every other Exception
\* return the fallback courses
OnError(bag, importable) == get_fallback_courses(bag, importable)

\* mutant: the parameters are dropped and the full list is requested
Fetch_always_all(behaviour, params) ==
    [requests |-> << [call |-> "get_all_courses", params |-> <<>>] >>,
     fetched |-> get_all_courses(behaviour)]

\* mutant: a failed constrained request is retried once
Fetch_with_retry(behaviour, params) ==
    LET first == IF DOMAIN params # {}
                 THEN [call |-> "get_courses", params |-> params]
                 ELSE [call |-> "get_all_courses", params |-> <<>>]
        fetched == IF DOMAIN params # {}
                   THEN Unwrap(get_courses(behaviour, params))
                   ELSE get_all_courses(behaviour)
    IN  [requests |-> IF fetched.tag = "raise" THEN <<first, first>>
                      ELSE <<first>>,
         fetched |-> fetched]

\* the remote call of filter_courses: get_courses(**api_params) and its
\* 'courses' entry when api_params is non-empty, get_all_courses() otherwise
Fetch(behaviour, params) ==
    IF DOMAIN params # {}
    THEN [requests |-> << [call |-> "get_courses", params |-> params] >>,
          fetched |-> Unwrap(get_courses(behaviour, params))]
    ELSE [requests |-> << [call |-> "get_all_courses", params |-> <<>>] >>,
          fetched |-> get_all_courses(behaviour)]

\* the try block of filter_courses, after the translation succeeded
FetchAndFilter(params, bag, importable, behaviour) ==
    LET Try(f) ==
          IF f.fetched.tag = "raise"
          THEN [requests |-> f.requests, api_params |-> params,
                courses |-> f.fetched, result |-> OnError(bag, importable)]
          ELSE LET Done(filtered) ==
                     [requests |-> f.requests, api_params |-> params,
                      courses |-> f.fetched,
                      result |-> IF filtered.tag = "raise"
                                 THEN OnError(bag, importable)
                                 ELSE filtered]
               IN  Done(filter_courses_locally(f.fetched.val, bag))
    IN  Try(Fetch(behaviour, params.val))

\* the body of filter_courses: the remote calls issued, the locals
\* api_params and courses, and the outcome
FilterCoursesBody(client, bag, importable, behaviour) ==
    IF ~is_api_available(client)
    THEN [requests |-> <<>>, api_params |-> Unset, courses |-> Unset,
          result |-> get_fallback_courses(bag, importable)]
    ELSE LET Translated(params) ==
               IF params.tag = "raise"
               THEN [requests |-> <<>>, api_params |-> params,
                     courses |-> Unset, result |-> OnError(bag, importable)]
               ELSE FetchAndFilter(params, bag, importable, behaviour)
         IN  Translated(convert_filters_to_api_params(bag))

RECURSIVE LastWithId(_, _)
\* mutant: the scan does not stop at the first record with the id
LastWithId(cs, id) ==
    IF cs = <<>> THEN <<>>
    ELSE IF LastWithId(Tail(cs), id) # <<>> THEN LastWithId(Tail(cs), id)
    ELSE IF Head(cs).id = id THEN <<Head(cs)>>
    ELSE <<>>

RECURSIVE FirstWithId(_, _)
\* for course in all_courses: if course.get('id') == course_id: return course
FirstWithId(cs, id) ==
    IF cs = <<>> THEN <<>>
    ELSE IF Head(cs).id = id THEN <<Head(cs)>>
    ELSE FirstWithId(Tail(cs), id)

\* the body of get_course_by_id; None is the empty sequence
GetCourseByIdBody(client, id, behaviour) ==
    IF ~is_api_available(client)
    THEN [requests |-> <<>>, courses |-> Unset, result |-> Ok(<<>>)]
    ELSE LET fetched == get_all_courses(behaviour)
             request == [call |-> "get_all_courses", params |-> <<>>]
         IN  [requests |-> <<request>>, courses |-> fetched,
              result |-> IF fetched.tag = "raise" THEN Ok(<<>>)
                         ELSE Ok(FirstWithId(fetched.val, id))]

---------------------------------------------------------------------------
(* Inputs *)

Subjects == {"Programmirovanie", "Nauka", "Kulinariya"}
Difficulties == {"Sredniy", "Prodvinutyy", "EXPERT"}
Grades == { PyInt(9), PyStr(<<"9">>), PyStr(<<"1", "0">>), PyStr(<<"x">>),
            PyStr(<<"SUPERSCRIPT_TWO">>) }
CourseIds == {1, 2, 99}
BaseUrls == {"", "http://82.202.138.172:8000"}

\* the iteration orders of the sets of at most MaxSel members of U
Orders(U) ==
    { s \in UNION { [1..n -> U] : n \in 0..MaxSel } :
        \A i, j \in DOMAIN s : i # j => s[i] # s[j] }

\* a dimension of the bag: absent, or a (possibly empty) set
Dimension(U) == { <<FALSE, <<>> >> } \cup { <<TRUE, s>> : s \in Orders(U) }

BagEntry(key, d) == IF d[1] THEN key :> d[2] ELSE <<>>

FilterBags ==
    { BagEntry("subjects", x[1]) @@ BagEntry("difficulty", x[2])
      @@ BagEntry("grade", x[3]) :
        x \in { y \in Dimension(Subjects) \X Dimension(Difficulties)
                       \X Dimension(Grades) :
                  Len(y[1][2]) + Len(y[2][2]) + Len(y[3][2]) <= MaxSel } }

---------------------------------------------------------------------------
(* The state machine *)

Init ==
    /\ BASE_URL \in BaseUrls
    /\ client_ok \in BOOLEAN
    /\ mock_available \in BOOLEAN
    /\ api_client = CourseServiceInit(BASE_URL, client_ok)
    /\ filters \in FilterBags
    /\ op = "none"
    /\ course_id = 0
    /\ requests = <<>>
    /\ api_params = Unset
    /\ courses = Unset
    /\ result = Unset

filter_courses(behaviour) ==
    \E run \in {FilterCoursesBody(api_client, filters, mock_available, behaviour)} :
        /\ op' = "filter_courses"
        /\ course_id' = 0
        /\ requests' = run.requests
        /\ api_params' = run.api_params
        /\ courses' = run.courses
        /\ result' = run.result
        /\ UNCHANGED <<BASE_URL, client_ok, mock_available, api_client, filters>>

get_course_by_id(id, behaviour) ==
    \E run \in {GetCourseByIdBody(api_client, id, behaviour)} :
        /\ op' = "get_course_by_id"
        /\ course_id' = id
        /\ requests' = run.requests
        /\ api_params' = Unset
        /\ courses' = run.courses
        /\ result' = run.result
        /\ UNCHANGED <<BASE_URL, client_ok, mock_available, api_client, filters>>

Next ==
    \/ \E behaviour \in RemoteBehaviours : filter_courses(behaviour)
    \/ \E id \in CourseIds, behaviour \in AllCoursesBehaviours :
           get_course_by_id(id, behaviour)

Spec == Init /\ [][Next]_vars

---------------------------------------------------------------------------
(* Properties *)

Online == api_client # "None"
Degraded == api_client = "None"

NoConstraint(bag) ==
    Get(bag, "subjects") = <<>> /\ Get(bag, "difficulty") = <<>>
    /\ Get(bag, "grade") = <<>>

\* evaluate(fallback dataset, filter bag); a dataset that cannot be imported
\* counts as the empty list
FallbackOutcome ==
    filter_courses_locally(IF mock_available THEN COURSES ELSE <<>>, filters)

\* the last invocation was a filter_courses that went through translation,
\* fetch, unwrapping and local evaluation without an exception
FilteredRemotely ==
    /\ op = "filter_courses" /\ Online
    /\ api_params.tag = "ok" /\ courses.tag = "ok"
    /\ filter_courses_locally(courses.val, filters).tag = "ok"

\* the last invocation was a filter_courses in Online mode in which the
\* translation, the fetch, the unwrapping or the local evaluation raised
FailedRemotely ==
    /\ op = "filter_courses" /\ Online
    /\ \/ api_params.tag = "raise"
       \/ courses.tag = "raise"
       \/ /\ courses.tag = "ok"
          /\ filter_courses_locally(courses.val, filters).tag = "raise"

\* C1: filter_courses never raises: every call, in both modes and whatever
\* fails on the way, ends by returning a list of course records.
C1_NeverRaises == op = "filter_courses" => result.tag = "ok"

\* C2: in Degraded mode filter_courses issues no remote call and its outcome
\* is exactly the local filter applied to the fallback dataset; for the bag
\* {"grade": {"9"}} these are the fallback records whose grade list holds 9,
\* in dataset order.
C2_DegradedFallback ==
    (op = "filter_courses" /\ Degraded) =>
        /\ requests = <<>>
        /\ result = FallbackOutcome
        /\ (mock_available /\ DOMAIN filters = {"grade"}
            /\ filters["grade"] = << PyStr(<<"9">>) >>) =>
               result = Ok(SelectSeq(COURSES, LAMBDA c : 9 \in Range(c.grade)))

C2_Witness ==
    /\ op = "filter_courses" /\ Degraded /\ mock_available
    /\ DOMAIN filters = {"grade"} /\ filters["grade"] = << PyStr(<<"9">>) >>
    /\ result = Ok(<<COURSES[1], COURSES[3]>>)

\* C3: in Online mode, when the fetch raises an API Error or anything else
\* raises during translation, fetch, unwrapping or local evaluation, the
\* outcome of filter_courses is the local filter applied to the fallback
\* dataset: the whole dataset for a bag without constraint, and never a part
\* of the remote answer.
C3_OnlineFallback ==
    FailedRemotely =>
        /\ result = FallbackOutcome
        /\ (NoConstraint(filters) /\ mock_available) => result = Ok(COURSES)

C3_Witness ==
    /\ FailedRemotely /\ courses = Raise("APIError")
    /\ NoConstraint(filters) /\ result = Ok(COURSES)

\* C4: in Online mode without error, filter_courses issues exactly one
\* request, get_courses with the translated parameters when there are some
\* and get_all_courses when there are none, and returns the local filter
\* applied, with the whole filter bag, to the candidates that came back.
C4_RequestAndResult ==
    FilteredRemotely =>
        /\ requests =
             << IF DOMAIN convert_filters_to_api_params(filters).val # {}
                THEN [call |-> "get_courses",
                      params |-> convert_filters_to_api_params(filters).val]
                ELSE [call |-> "get_all_courses", params |-> <<>>] >>
        /\ result = filter_courses_locally(courses.val, filters)

C4_Witness ==
    /\ FilteredRemotely
    /\ requests[1].call = "get_courses"
    /\ DOMAIN requests[1].params = {"category_id", "grade_id"}
    /\ courses.val = CATALOG
    /\ result.val # <<>> /\ Len(result.val) < Len(courses.val)

\* C5: in Online mode, when the remote API answers a constrained request
\* with exactly the catalog records matching the parameters sent, the result
\* of filter_courses is every catalog record satisfying the whole filter
\* bag: the local filter applied to the full catalog.
C5_FullCatalogEquivalence ==
    ( /\ FilteredRemotely
      /\ \/ requests[1].call = "get_all_courses"
         \/ courses.val = ExactAnswer(requests[1].params)
      /\ filter_courses_locally(CATALOG, filters).tag = "ok" ) =>
        result = filter_courses_locally(CATALOG, filters)

\* the integer a selected grade stands for: itself for an integer, its value
\* for a string of decimal digits, none for any other string
GradeNumber(g) ==
    IF g.t = "int" THEN <<g.n>>
    ELSE IF g.s # <<>> /\ \A i \in DOMAIN g.s : g.s[i] \in DOMAIN DecimalValue
         THEN <<DecimalFold(g.s, 0)>>
         ELSE <<>>

\* the table images of the members of a dimension that are in its table
Images(bag, key) ==
    CASE key = "category_id" ->
           { SUBJECT_TO_CATEGORY[m] :
               m \in Range(Get(bag, "subjects")) \cap DOMAIN SUBJECT_TO_CATEGORY }
      [] key = "level" ->
           { DIFFICULTY_TO_LEVEL[m] :
               m \in Range(Get(bag, "difficulty")) \cap DOMAIN DIFFICULTY_TO_LEVEL }
      [] OTHER ->
           { GRADE_TO_ID[n[1]] :
               n \in { GradeNumber(g) : g \in Range(Get(bag, "grade")) }
                    \cap { <<k>> : k \in DOMAIN GRADE_TO_ID } }

\* C6: the translation never raises and returns a mapping over category_id,
\* level and grade_id in which a key is present iff some member of the
\* dimension's set is in the lookup table (grades normalized to integers
\* first), its value being the table image of one such member.
C6_Translate ==
    (op = "filter_courses" /\ Online) =>
        /\ api_params.tag = "ok"
        /\ DOMAIN api_params.val \subseteq {"category_id", "level", "grade_id"}
        /\ \A key \in {"category_id", "level", "grade_id"} :
              /\ key \in DOMAIN api_params.val <=> Images(filters, key) # {}
              /\ key \in DOMAIN api_params.val =>
                    api_params.val[key] \in Images(filters, key)

\* the label of an API-coded difficulty, the code itself when unmapped
Label(code) ==
    IF \E l \in DOMAIN DIFFICULTY_TO_LEVEL : DIFFICULTY_TO_LEVEL[l] = code
    THEN CHOOSE l \in DOMAIN DIFFICULTY_TO_LEVEL : DIFFICULTY_TO_LEVEL[l] = code
    ELSE code

\* the three predicates of the local filter, as the specification states them
Keeps(course, bag) ==
    /\ \/ Get(bag, "subjects") = <<>>
       \/ Range(Get(bag, "subjects")) \cap Range(course.subjects) # {}
    /\ \/ Get(bag, "difficulty") = <<>>
       \/ Label(course.difficulty) \in Range(Get(bag, "difficulty"))
    /\ \/ Get(bag, "grade") = <<>>
       \/ \E g \in Range(Get(bag, "grade")) :
              GradeNumber(g) # <<>> /\ GradeNumber(g)[1] \in Range(course.grade)

\* C7: the local filter returns exactly the candidates, in input order, for
\* which the subject, difficulty and grade predicates all hold, on the
\* fallback dataset and on the remote candidates alike.
C7_Evaluate ==
    /\ (op = "filter_courses" /\ Degraded /\ mock_available) =>
           result = Ok(SelectSeq(COURSES, LAMBDA c : Keeps(c, filters)))
    /\ (op = "filter_courses" /\ Online
        /\ api_params.tag = "ok" /\ courses.tag = "ok") =>
           result = Ok(SelectSeq(courses.val, LAMBDA c : Keeps(c, filters)))

\* C8: get_course_by_id never raises; it returns a record only when the
\* service is Online and the fetch succeeded, and then the first record of
\* the fetched list with that id; it returns absent in every other case and
\* issues no request in Degraded mode.
C8_GetCourseById ==
    op = "get_course_by_id" =>
        /\ result.tag = "ok"
        /\ Len(result.val) <= 1
        /\ Degraded => requests = <<>> /\ result.val = <<>>
        /\ (Online /\ courses.tag = "raise") => result.val = <<>>
        /\ (Online /\ courses.tag = "ok") =>
              IF \E i \in DOMAIN courses.val : courses.val[i].id = course_id
              THEN \E i \in DOMAIN courses.val :
                      /\ courses.val[i].id = course_id
                      /\ \A j \in 1..(i - 1) : courses.val[j].id # course_id
                      /\ result.val = <<courses.val[i]>>
              ELSE result.val = <<>>

C8_Witness ==
    /\ op = "get_course_by_id" /\ course_id = 2
    /\ result = Ok(<<CATALOG[2]>>) /\ CATALOG[3].id = 2

\* C9: the mode is fixed at construction.  A failure of validate() or of the
\* client's constructor gives Degraded mode; no operation changes the mode;
\* a Degraded service issues no request, and an Online service issues one in
\* every operation that reaches the fetch, whatever happened before.
C9_ModeFixed ==
    /\ []((BASE_URL = "" \/ ~client_ok) <=> Degraded)
    /\ [][ /\ api_client' = api_client
           /\ Degraded => requests' = <<>>
           /\ (Online /\ op' = "get_course_by_id") => Len(requests') = 1
           /\ (Online /\ op' = "filter_courses" /\ api_params'.tag = "ok") =>
                 Len(requests') = 1 ]_vars

C9_Witness ==
    /\ Online /\ op = "filter_courses"
    /\ courses = Raise("APIError") /\ Len(requests) = 1

\* C10: an invocation of filter_courses or get_course_by_id issues at most
\* one remote call, on every path.
C10_AtMostOneCall == Len(requests) <= 1

C10_Witness ==
    /\ op = "filter_courses" /\ courses.tag = "raise"
    /\ requests # <<>> /\ requests[1].call = "get_courses"
    /\ result.tag = "ok" /\ result.val # <<>>

====
